---- MODULE Spec2Model ----
(***************************************************************************)
(* Model of hvac.api.secrets_engines.active_directory.ActiveDirectory.     *)
(*                                                                         *)
(* The class is a stateless binding: every method formats a path, builds   *)
(* an optional JSON body and makes one call on the injected adapter, whose *)
(* response (or exception) it hands back.  The state of the model is the   *)
(* record of the last method call: its name and arguments, the requests    *)
(* that reached the adapter, what the adapter produced and what the caller *)
(* got.                                                                    *)
(*                                                                         *)
(* Python values are written as the strings of their literals ("None",     *)
(* "0", "False", "''", "[]", ...), a dict is a function from keys to       *)
(* values, and a URL is the sequence of its pieces ("/" is a piece).       *)
(***************************************************************************)
EXTENDS Integers, Sequences, FiniteSets, TLC

\* The field names of the records and the keys of the dicts of this module,
\* ranked in the order in which every record below lists them.  TLC orders
\* field names by first occurrence, so a record written in this order is in
\* normal form as written.
FieldOrder ==
    [verb |-> 1, binddn |-> 2, bindpass |-> 3, url |-> 4, has_json |-> 5,
     json |-> 6, userdn |-> 7, upndomain |-> 8, name |-> 9, line |-> 10,
     service_account_name |-> 11, service_account_names |-> 12, ttl |-> 13,
     max_ttl |-> 14, disable_check_in_enforcement |-> 15, mount_point |-> 16,
     insecure_tls |-> 17, raised |-> 18, value |-> 19, sent |-> 20,
     result |-> 21]

VARIABLES method, args, kwargs, sent, adapter_out, result, self_fields

vars == <<method, args, kwargs, sent, adapter_out, result, self_fields>>

----------------------------------------------------------------------------
(* Python values and dicts *)

None == "None"

DEFAULT_MOUNT_POINT == "ad"

EmptyDict == [k \in {} |-> None]

\* dict.update: keys of b win, the others keep a's value
update(a, b) ==
    [k \in (DOMAIN a) \cup (DOMAIN b) |-> IF k \in DOMAIN b THEN b[k] ELSE a[k]]

\* hvac.utils.remove_nones: drops exactly the entries whose value is None
remove_nones(params) ==
    [k \in {x \in DOMAIN params : params[x] # None} |-> params[k]]

\* hvac.utils.format_url: the i-th "{}" takes the i-th positional argument,
\* "{mount_point}" takes the keyword argument
format_url(format_str, fargs, fkwargs) ==
    [i \in 1..Len(format_str) |->
        IF format_str[i] = "{}"
            THEN fargs[Cardinality({j \in 1..i : format_str[j] = "{}"})]
        ELSE IF format_str[i] = "{mount_point}"
            THEN fkwargs["mount_point"]
        ELSE format_str[i]]

----------------------------------------------------------------------------
(* The adapter (the injected transport): one request per call *)

adapter_get(url) ==
    [verb |-> "GET", url |-> url, has_json |-> FALSE, json |-> EmptyDict]

adapter_list(url) ==
    [verb |-> "LIST", url |-> url, has_json |-> FALSE, json |-> EmptyDict]

adapter_delete(url) ==
    [verb |-> "DELETE", url |-> url, has_json |-> FALSE, json |-> EmptyDict]

adapter_post(url, json) ==
    [verb |-> "POST", url |-> url, has_json |-> TRUE, json |-> json]

\* what the transport reports: a response, or a failure it raises
TransportFailures ==
    {"NotFound", "Conflict", "Forbidden", "ServerError", "TransportError"}

AdapterOutcomes(verb) ==
    {[raised |-> FALSE,
      value |-> IF verb \in {"GET", "LIST"} THEN "200" ELSE "204"]}
    \cup {[raised |-> TRUE, value |-> e] : e \in TransportFailures}

NoOutcome == [raised |-> FALSE, value |-> None]

\* VaultApiBase.__init__: the only attribute of the instance
InstanceFields == {"_adapter"}

----------------------------------------------------------------------------
(* The methods: request(s) issued and value handed to the caller, given    *)
(* the arguments and the adapter's outcome                                 *)

configure_params(binddn, bindpass, url, userdn, upndomain, ttl, max_ttl, kw) ==
    update(remove_nones([binddn |-> binddn, bindpass |-> bindpass, url |-> url,
                         userdn |-> userdn, upndomain |-> upndomain,
                         ttl |-> ttl, max_ttl |-> max_ttl]),
           kw)

configure(binddn, bindpass, url, userdn, upndomain, ttl, max_ttl, mount_point, kw, out) ==
    LET params == configure_params(binddn, bindpass, url, userdn, upndomain,
                                   ttl, max_ttl, kw)
        api_path == format_url(<<"/", "v1", "/", "{mount_point}", "/", "config">>,
                               <<>>, [mount_point |-> mount_point])
    IN  [sent |-> <<adapter_post(api_path, params)>>, result |-> out]

read_config(mount_point, out) ==
    LET api_path == format_url(<<"/", "v1", "/", "{mount_point}", "/", "config">>,
                               <<>>, [mount_point |-> mount_point])
    IN  [sent |-> <<adapter_get(api_path)>>, result |-> out]

create_or_update_role_params(name, service_account_name, ttl) ==
    update([name |-> name],
           remove_nones([service_account_name |-> service_account_name,
                         ttl |-> ttl]))

create_or_update_role(name, service_account_name, ttl, mount_point, out) ==
    LET api_path == format_url(<<"/", "v1", "/", "{}", "/", "roles", "/", "{}">>,
                               <<mount_point, name>>, EmptyDict)
        params == create_or_update_role_params(name, service_account_name, ttl)
    IN  [sent |-> <<adapter_post(api_path, params)>>, result |-> out]

\* a read_role that asks again when the transport reports a failure
read_role_retrying(name, mount_point, out) ==
    LET api_path == format_url(<<"/", "v1", "/", "{}", "/", "roles", "/", "{}">>,
                               <<mount_point, name>>, EmptyDict)
    IN  [sent |-> IF out.raised
                      THEN <<adapter_get(api_path), adapter_get(api_path)>>
                      ELSE <<adapter_get(api_path)>>,
         result |-> out]

read_role(name, mount_point, out) ==
    LET api_path == format_url(<<"/", "v1", "/", "{}", "/", "roles", "/", "{}">>,
                               <<mount_point, name>>, EmptyDict)
    IN  [sent |-> <<adapter_get(api_path)>>, result |-> out]

list_roles(mount_point, out) ==
    LET api_path == format_url(<<"/", "v1", "/", "{}", "/", "roles">>,
                               <<mount_point>>, EmptyDict)
    IN  [sent |-> <<adapter_list(api_path)>>, result |-> out]

\* the first "def delete_role" of the class body
delete_role_at_136(name, mount_point, out) ==
    LET api_path == format_url(<<"/", "v1", "/", "{}", "/", "roles", "/", "{}">>,
                               <<mount_point, name>>, EmptyDict)
    IN  [sent |-> <<adapter_delete(api_path)>>, result |-> out]

list_libraries(mount_point, out) ==
    LET api_path == format_url(<<"v1", "/", "{}", "/", "library">>,
                               <<mount_point>>, EmptyDict)
    IN  [sent |-> <<adapter_list(api_path)>>, result |-> out]

read_library(name, mount_point, out) ==
    LET api_path == format_url(<<"/", "v1", "/", "{}", "/", "library", "/", "{}">>,
                               <<mount_point, name>>, EmptyDict)
    IN  [sent |-> <<adapter_get(api_path)>>, result |-> out]

\* a body in which service_account_names is filtered like the others
create_or_update_library_params_filtered(service_account_names, ttl, max_ttl, disable_check_in_enforcement) ==
    update(EmptyDict,
           remove_nones([service_account_names |-> service_account_names,
                         ttl |-> ttl, max_ttl |-> max_ttl,
                         disable_check_in_enforcement |->
                             disable_check_in_enforcement]))

create_or_update_library_params(service_account_names, ttl, max_ttl, disable_check_in_enforcement) ==
    update([service_account_names |-> service_account_names],
           remove_nones([ttl |-> ttl, max_ttl |-> max_ttl,
                         disable_check_in_enforcement |->
                             disable_check_in_enforcement]))

create_or_update_library(name, service_account_names, ttl, max_ttl, disable_check_in_enforcement, mount_point, out) ==
    LET api_path == format_url(<<"/", "v1", "/", "{}", "/", "library", "/", "{}">>,
                               <<mount_point, name>>, EmptyDict)
        params == create_or_update_library_params(service_account_names, ttl,
                      max_ttl, disable_check_in_enforcement)
    IN  [sent |-> <<adapter_post(api_path, params)>>, result |-> out]

\* the second "def delete_role" of the class body
delete_role_at_220(name, mount_point, out) ==
    LET api_path == format_url(<<"/", "v1", "/", "{}", "/", "library", "/", "{}">>,
                               <<mount_point, name>>, EmptyDict)
    IN  [sent |-> <<adapter_delete(api_path)>>, result |-> out]

get_library_status(name, mount_point, out) ==
    LET api_path == format_url(<<"/", "v1", "/", "{}", "/", "library", "/", "{}",
                                 "/", "status">>,
                               <<mount_point, name>>, EmptyDict)
    IN  [sent |-> <<adapter_get(api_path)>>, result |-> out]

\* a body that tests the truth of ttl ("if ttl:") instead of "is not None"
check_out_service_account_params_truthy(ttl) ==
    IF ttl \in {None, "0", "''"} THEN EmptyDict ELSE [ttl |-> ttl]

check_out_service_account_params(ttl) ==
    update(EmptyDict, remove_nones([ttl |-> ttl]))

check_out_service_account(name, ttl, mount_point, out) ==
    LET api_path == format_url(<<"/", "v1", "/", "{}", "/", "library", "/", "{}",
                                 "/", "check-out">>,
                               <<mount_point, name>>, EmptyDict)
        params == check_out_service_account_params(ttl)
    IN  [sent |-> <<adapter_post(api_path, params)>>, result |-> out]

check_in_service_account_params(service_account_names) ==
    update(EmptyDict,
           remove_nones([service_account_names |-> service_account_names]))

check_in_service_account(name, service_account_names, mount_point, out) ==
    LET api_path == format_url(<<"/", "v1", "/", "{}", "/", "library", "/", "{}",
                                 "/", "check-in">>,
                               <<mount_point, name>>, EmptyDict)
        params == check_in_service_account_params(service_account_names)
    IN  [sent |-> <<adapter_post(api_path, params)>>, result |-> out]

----------------------------------------------------------------------------
(* The class namespace: the "def" statements of the class body in source   *)
(* order; a later binding of a name replaces an earlier one                *)

ClassBody ==
    << [name |-> "configure",                 line |-> 16],
       [name |-> "read_config",               line |-> 61],
       [name |-> "create_or_update_role",     line |-> 79],
       [name |-> "read_role",                 line |-> 111],
       [name |-> "list_roles",                line |-> 126],
       [name |-> "delete_role",               line |-> 136],
       [name |-> "list_libraries",            line |-> 151],
       [name |-> "read_library",              line |-> 165],
       [name |-> "create_or_update_library",  line |-> 180],
       [name |-> "delete_role",               line |-> 220],
       [name |-> "get_library_status",        line |-> 235],
       [name |-> "check_out_service_account", line |-> 249],
       [name |-> "check_in_service_account",  line |-> 274] >>

ClassAttributes == {ClassBody[i].name : i \in 1..Len(ClassBody)}

\* the line of the definition an attribute name is bound to
Resolve(attr) ==
    LET defs == {i \in 1..Len(ClassBody) : ClassBody[i].name = attr}
        last == CHOOSE i \in defs : \A j \in defs : j <= i
    IN  ClassBody[last].line

\* what a call of instance.delete_role(...) runs
delete_role(name, mount_point, out) ==
    IF Resolve("delete_role") = 136
        THEN delete_role_at_136(name, mount_point, out)
        ELSE delete_role_at_220(name, mount_point, out)

----------------------------------------------------------------------------
(* Inputs *)

MountPoints == {DEFAULT_MOUNT_POINT, "corp"}
Names       == {"app", "db"}
TtlValues   == {None, "0", "3600"}
AccountLists == {None, "[]", "['svcA', 'svcB']"}
ExtraKwargs == {EmptyDict, [insecure_tls |-> "False"]}

\* the arguments of configure: none, one, all but one or all of the seven
\* optional parameters supplied
ConfigureArgs ==
    {a \in [binddn : {None, "'cn=vault'"}, bindpass : {None, "''"},
            url : {None, "'ldaps://dc'"}, userdn : {None, "''"},
            upndomain : {None, "'corp.local'"}, ttl : {None, "0"},
            max_ttl : {None, "3600"}] :
        Cardinality({p \in DOMAIN a : a[p] # None}) \in {0, 1, 6, 7}}

----------------------------------------------------------------------------
(* Actions: one per method of the class *)

Configure ==
    \E a \in ConfigureArgs, mount_point \in MountPoints, kw \in ExtraKwargs,
       out \in AdapterOutcomes("POST") :
        LET r == configure(a.binddn, a.bindpass, a.url, a.userdn, a.upndomain,
                     a.ttl, a.max_ttl, mount_point, kw, out)
        IN  /\ method' = "configure"
            /\ args' = [binddn |-> a.binddn, bindpass |-> a.bindpass,
                        url |-> a.url, userdn |-> a.userdn,
                        upndomain |-> a.upndomain, ttl |-> a.ttl,
                        max_ttl |-> a.max_ttl, mount_point |-> mount_point]
            /\ kwargs' = kw
            /\ adapter_out' = out
            /\ sent' = r.sent
            /\ result' = r.result
            /\ UNCHANGED self_fields

ReadConfig ==
    \E mount_point \in MountPoints, out \in AdapterOutcomes("GET") :
        LET r == read_config(mount_point, out)
        IN  /\ method' = "read_config"
            /\ args' = [mount_point |-> mount_point]
            /\ kwargs' = EmptyDict
            /\ adapter_out' = out
            /\ sent' = r.sent
            /\ result' = r.result
            /\ UNCHANGED self_fields

CreateOrUpdateRole ==
    \E name \in Names, service_account_name \in {None, "''", "'svcA'"},
       ttl \in TtlValues, mount_point \in MountPoints,
       out \in AdapterOutcomes("POST") :
        LET r == create_or_update_role(name, service_account_name, ttl,
                     mount_point, out)
        IN  /\ method' = "create_or_update_role"
            /\ args' = [name |-> name,
                        service_account_name |-> service_account_name,
                        ttl |-> ttl, mount_point |-> mount_point]
            /\ kwargs' = EmptyDict
            /\ adapter_out' = out
            /\ sent' = r.sent
            /\ result' = r.result
            /\ UNCHANGED self_fields

ReadRole ==
    \E name \in Names, mount_point \in MountPoints,
       out \in AdapterOutcomes("GET") :
        LET r == read_role(name, mount_point, out)
        IN  /\ method' = "read_role"
            /\ args' = [name |-> name, mount_point |-> mount_point]
            /\ kwargs' = EmptyDict
            /\ adapter_out' = out
            /\ sent' = r.sent
            /\ result' = r.result
            /\ UNCHANGED self_fields

ListRoles ==
    \E mount_point \in MountPoints, out \in AdapterOutcomes("LIST") :
        LET r == list_roles(mount_point, out)
        IN  /\ method' = "list_roles"
            /\ args' = [mount_point |-> mount_point]
            /\ kwargs' = EmptyDict
            /\ adapter_out' = out
            /\ sent' = r.sent
            /\ result' = r.result
            /\ UNCHANGED self_fields

DeleteRole ==
    \E name \in Names, mount_point \in MountPoints,
       out \in AdapterOutcomes("DELETE") :
        LET r == delete_role(name, mount_point, out)
        IN  /\ method' = "delete_role"
            /\ args' = [name |-> name, mount_point |-> mount_point]
            /\ kwargs' = EmptyDict
            /\ adapter_out' = out
            /\ sent' = r.sent
            /\ result' = r.result
            /\ UNCHANGED self_fields

ListLibraries ==
    \E mount_point \in MountPoints, out \in AdapterOutcomes("LIST") :
        LET r == list_libraries(mount_point, out)
        IN  /\ method' = "list_libraries"
            /\ args' = [mount_point |-> mount_point]
            /\ kwargs' = EmptyDict
            /\ adapter_out' = out
            /\ sent' = r.sent
            /\ result' = r.result
            /\ UNCHANGED self_fields

ReadLibrary ==
    \E name \in Names, mount_point \in MountPoints,
       out \in AdapterOutcomes("GET") :
        LET r == read_library(name, mount_point, out)
        IN  /\ method' = "read_library"
            /\ args' = [name |-> name, mount_point |-> mount_point]
            /\ kwargs' = EmptyDict
            /\ adapter_out' = out
            /\ sent' = r.sent
            /\ result' = r.result
            /\ UNCHANGED self_fields

CreateOrUpdateLibrary ==
    \E name \in Names, service_account_names \in AccountLists,
       ttl \in {None, "0"}, max_ttl \in {None, "3600"},
       disable_check_in_enforcement \in {None, "False"},
       mount_point \in MountPoints, out \in AdapterOutcomes("POST") :
        LET r == create_or_update_library(name, service_account_names, ttl,
                     max_ttl, disable_check_in_enforcement, mount_point, out)
        IN  /\ method' = "create_or_update_library"
            /\ args' = [name |-> name,
                        service_account_names |-> service_account_names,
                        ttl |-> ttl, max_ttl |-> max_ttl,
                        disable_check_in_enforcement |-> disable_check_in_enforcement,
                        mount_point |-> mount_point]
            /\ kwargs' = EmptyDict
            /\ adapter_out' = out
            /\ sent' = r.sent
            /\ result' = r.result
            /\ UNCHANGED self_fields

GetLibraryStatus ==
    \E name \in Names, mount_point \in MountPoints,
       out \in AdapterOutcomes("GET") :
        LET r == get_library_status(name, mount_point, out)
        IN  /\ method' = "get_library_status"
            /\ args' = [name |-> name, mount_point |-> mount_point]
            /\ kwargs' = EmptyDict
            /\ adapter_out' = out
            /\ sent' = r.sent
            /\ result' = r.result
            /\ UNCHANGED self_fields

CheckOutServiceAccount ==
    \E name \in Names, ttl \in TtlValues, mount_point \in MountPoints,
       out \in AdapterOutcomes("POST") :
        LET r == check_out_service_account(name, ttl, mount_point, out)
        IN  /\ method' = "check_out_service_account"
            /\ args' = [name |-> name, ttl |-> ttl,
                        mount_point |-> mount_point]
            /\ kwargs' = EmptyDict
            /\ adapter_out' = out
            /\ sent' = r.sent
            /\ result' = r.result
            /\ UNCHANGED self_fields

CheckInServiceAccount ==
    \E name \in Names, service_account_names \in AccountLists,
       mount_point \in MountPoints, out \in AdapterOutcomes("POST") :
        LET r == check_in_service_account(name, service_account_names,
                     mount_point, out)
        IN  /\ method' = "check_in_service_account"
            /\ args' = [name |-> name,
                        service_account_names |-> service_account_names,
                        mount_point |-> mount_point]
            /\ kwargs' = EmptyDict
            /\ adapter_out' = out
            /\ sent' = r.sent
            /\ result' = r.result
            /\ UNCHANGED self_fields

Init ==
    /\ method = "none"
    /\ args = EmptyDict
    /\ kwargs = EmptyDict
    /\ sent = <<>>
    /\ adapter_out = NoOutcome
    /\ result = NoOutcome
    /\ self_fields = InstanceFields

Next ==
    \/ Configure
    \/ ReadConfig
    \/ CreateOrUpdateRole
    \/ ReadRole
    \/ ListRoles
    \/ DeleteRole
    \/ ListLibraries
    \/ ReadLibrary
    \/ CreateOrUpdateLibrary
    \/ GetLibraryStatus
    \/ CheckOutServiceAccount
    \/ CheckInServiceAccount

Spec == Init /\ [][Next]_vars

----------------------------------------------------------------------------
(* What the claims speak about *)

BodyBuilding ==
    {"configure", "create_or_update_role", "create_or_update_library",
     "check_out_service_account", "check_in_service_account"}

\* the named parameters with default None that go into the body
OptionalParams(m) ==
    CASE m = "configure" ->
            {"binddn", "bindpass", "url", "userdn", "upndomain", "ttl", "max_ttl"}
      [] m = "create_or_update_role" -> {"service_account_name", "ttl"}
      [] m = "create_or_update_library" ->
            {"service_account_names", "ttl", "max_ttl",
             "disable_check_in_enforcement"}
      [] m = "check_out_service_account" -> {"ttl"}
      [] m = "check_in_service_account" -> {"service_account_names"}
      [] OTHER -> {}

Body == sent[1].json

\* the body carries the parameter's key with the value the caller passed
Transmitted(p) == p \in DOMAIN Body /\ Body[p] = args[p]

Supplied(p) == args[p] # None

RolePath(mount_point, name) ==
    <<"/", "v1", "/", mount_point, "/", "roles", "/", name>>

LibraryPath(mount_point, name) ==
    <<"/", "v1", "/", mount_point, "/", "library", "/", name>>

\* a path without its trailing "/" and name
WithoutName(path) == SubSeq(path, 1, Len(path) - 2)

----------------------------------------------------------------------------
\* C1 (as stated): in every body-building method, every named optional
\* parameter is in the JSON body, with the value passed, if and only if the
\* caller supplied a value for it (a falsy value counts as supplied).
C1_EveryOptionalParamIffSupplied ==
    method \in BodyBuilding =>
        /\ Len(sent) = 1
        /\ sent[1].has_json
        /\ \A p \in OptionalParams(method) : Transmitted(p) <=> Supplied(p)

\* C1 (amended): the same for every named optional parameter other than
\* service_account_names of create_or_update_library; that one is in the body
\* of every call, carrying the argument as passed (None when not supplied).
C1_OptionalParamIffSuppliedExceptLibraryAccounts ==
    method \in BodyBuilding =>
        /\ Len(sent) = 1
        /\ sent[1].has_json
        /\ \A p \in OptionalParams(method) :
              IF method = "create_or_update_library" /\ p = "service_account_names"
                  THEN Transmitted(p)
                  ELSE Transmitted(p) <=> Supplied(p)

\* C1 witness: a call that passes falsy values for two parameters and leaves
\* a third one out has sent the two and omitted the third.
C1_FalsySentAbsentOmitted ==
    /\ method = "create_or_update_library"
    /\ args.ttl = "0"
    /\ args.disable_check_in_enforcement = "False"
    /\ args.max_ttl = None
    /\ Body["ttl"] = "0"
    /\ Body["disable_check_in_enforcement"] = "False"
    /\ "max_ttl" \notin DOMAIN Body

\* C2 (as stated): delete_role and delete_library are distinct operations and
\* delete_role(name) issues one DELETE to /v1/{mount_point}/roles/{name},
\* never to a library path.
C2_DeleteRoleTargetsRolePath ==
    method = "delete_role" =>
        /\ "delete_library" \in ClassAttributes
        /\ Len(sent) = 1
        /\ sent[1].verb = "DELETE"
        /\ sent[1].url = RolePath(args.mount_point, args.name)
        /\ sent[1].url # LibraryPath(args.mount_point, args.name)

\* C3: every method issues exactly one transport call and hands its outcome
\* back unmodified, a failure included, and leaves no attribute on the
\* instance beyond the adapter it was constructed with.
C3_OneCallOutcomeUnchangedNoState ==
    /\ self_fields = InstanceFields
    /\ method # "none" =>
        /\ Len(sent) = 1
        /\ result = adapter_out

\* C3 witness: a check-out that the transport answered with Conflict made one
\* request and surfaced Conflict.
C3_ConflictSurfacedAfterOneCall ==
    /\ method = "check_out_service_account"
    /\ Len(sent) = 1
    /\ adapter_out.raised
    /\ adapter_out.value = "Conflict"
    /\ result.raised
    /\ result.value = "Conflict"

\* C6: the body of create_or_update_library always has the key
\* service_account_names with the argument as passed (None included); ttl,
\* max_ttl and disable_check_in_enforcement are in it only if given; the
\* library name is in the path and not in the body.
C6_LibraryBodyAlwaysHasAccountNames ==
    method = "create_or_update_library" =>
        /\ Len(sent) = 1
        /\ sent[1].has_json
        /\ "service_account_names" \in DOMAIN Body
        /\ Body["service_account_names"] = args.service_account_names
        /\ \A p \in {"ttl", "max_ttl", "disable_check_in_enforcement"} :
              p \in DOMAIN Body <=> Supplied(p)
        /\ "name" \notin DOMAIN Body
        /\ sent[1].url[Len(sent[1].url)] = args.name

\* C6 witness: a call without service_account_names has sent the key with None.
C6_AbsentAccountNamesSentAsNone ==
    /\ method = "create_or_update_library"
    /\ args.service_account_names = None
    /\ "service_account_names" \in DOMAIN Body
    /\ Body["service_account_names"] = None

\* C10 (as stated): list_libraries issues one LIST whose URL is
\* /v1/{mount_point}/library, with the leading-slash prefix of list_roles,
\* and equals the URL of read_library(name) without its trailing /{name}.
C10_ListLibrariesUrlIsLibraryCollection ==
    method = "list_libraries" =>
        /\ Len(sent) = 1
        /\ sent[1].verb = "LIST"
        /\ SubSeq(sent[1].url, 1, 4)
             = SubSeq(list_roles(args.mount_point, NoOutcome).sent[1].url, 1, 4)
        /\ \A n \in Names :
              sent[1].url
                = WithoutName(read_library(n, args.mount_point, NoOutcome).sent[1].url)

====
